---------------------------- MODULE Spec2Model ----------------------------
(***************************************************************************)
(* DocSphere Scribe: the meeting lifecycle of App (src/App.tsx) driving    *)
(* LiveTranscriptionClient (src/services/geminiService.ts).                *)
(*                                                                         *)
(* Execution model: one JavaScript thread.  A step of the model is one     *)
(* run-to-completion stretch of a handler, from its invocation or from the *)
(* settling of the promise it awaits to its next await or its return.      *)
(* The only stretch cut in two is the continuation of handleStopRecording  *)
(* after disconnect(): the state after setStatus(PROCESSING) is made       *)
(* visible, and while a continuation is held in `running` no other step    *)
(* is enabled, so nothing interleaves where the code has no suspension.    *)
(*                                                                         *)
(* Closures: handleStopRecording reads the `status` of the render that     *)
(* created it.  Every invocation therefore carries the status it captured  *)
(* (field st): the stop button carries the status of the render that shows *)
(* it, the 'ended' listeners and the error callback carry the status of    *)
(* the render in which handleStartRecording was invoked.                   *)
(*                                                                         *)
(* Specifications: Spec is the lifecycle of one recording with every user  *)
(* interface handler and service callback; SpecAudio is one recording with *)
(* the audio frames of the script processor and their sends; SpecTwo is    *)
(* two recordings, with start invoked again before, during or after the    *)
(* first.  The three share every action; they differ in the actions they   *)
(* admit and in the bounds they put on them.                               *)
(*                                                                         *)
(* SpecAccumulate is one recording with the update queue of the            *)
(* transcript; SpecConsecutive is two recordings one after the other;      *)
(* SpecPCM and SpecDownsample apply float32ToPCM16 and downsampleBuffer    *)
(* (src/utils/audioUtils.ts) to one buffer each; SpecVolume is the volume  *)
(* meter over the frames of one recording; SpecBatch is one session of     *)
(* the batch strategy.  Numbers are IEEE 754 doubles wherever the source   *)
(* divides or multiplies by a value that is not an integer.                *)
(***************************************************************************)
EXTENDS Integers, Sequences, FiniteSets, Bags, TLC

VARIABLES
    status,         \* useState<MeetingStatus>
    transcript,     \* useState<string>, a sequence of characters
    minutes,        \* useState<MeetingMinutes | null>: <<>> or <<text summarised>>
    sourceType,     \* useState<AudioSourceType>
    error,          \* useState<string | null>
    apiKey,         \* process.env.API_KEY is set (fixed at build time)
    liveClientRef,  \* useRef: index into clients, 0 for null
    transcriptRef,  \* useRef<string>, copied from transcript by an effect
    clients,        \* every LiveTranscriptionClient constructed so far
    streams,        \* every MediaStream acquired so far
    starts,         \* handleStartRecording invocations awaiting acquisition
    stops,          \* handleStopRecording invocations awaiting a promise
    running,        \* <<>> or <<the continuation that holds the thread>>
    updates,        \* updates of `transcript` queued by setTranscript, not yet rendered
    delivered,      \* history: the texts handed to onTranscriptionCallback since setTranscript("")
    volumeLevel,    \* useState<number> of the volume meter, a double
    meter,          \* the rms of the frames being captured, and how many were metered
    call,           \* one invocation of a function of utils/audioUtils.ts
    batch           \* the state of a batch-strategy transcription client

\* The variables of the lifecycle, and the ones only the specifications of
\* the transcript queue, the volume meter, the audio utilities and the batch
\* client change.
aux == <<updates, delivered, volumeLevel, meter, call, batch>>

vars == <<status, transcript, minutes, sourceType, error, apiKey, liveClientRef,
          transcriptRef, clients, streams, starts, stops, running,
          updates, delivered, volumeLevel, meter, call, batch>>

(* ------------------------------ bounds -------------------------------- *)

\* MediaStreams acquired (and so clients constructed) in one run.
MaxStreams == 1

\* handleStartRecording invocations awaiting getDisplayMedia/getUserMedia.
MaxStarts == 1

\* handleStopRecording invocations in flight at once.
MaxStops == 2

\* Longest transcript, in characters.
MaxTranscriptLen == 30

\* Audio frames captured by one client's script processor.
MaxFrames == 2

\* MediaStreams acquired in one run of the two-recording specification.
MaxSessions == 2

\* handleStartRecording invocations awaiting acquisition, same specification.
MaxPendingStarts == 2

\* Segments delivered in one run of the transcript-queue specification.
MaxSegments == 3

\* Samples in a buffer handed to float32ToPCM16.
MaxSamples == 2

\* Samples in a buffer handed to downsampleBuffer.
MaxBufferLen == 26

\* Frames metered in one recording.
MaxVolumeFrames == 165

\* Encoded audio chunks captured by a batch-strategy session.
MaxChunks == 3

\* Transcription requests of a batch-strategy session in flight at once.
MaxInFlight == 2

(* ----------------------------- constants ------------------------------ *)

\* transcriptRef.current.trim().length < 10
MinTranscriptLen == 10

MeetingStatus == {"IDLE", "RECORDING", "PROCESSING", "REVIEWING"}

AudioSourceType == {"MICROPHONE", "SYSTEM_AUDIO"}

NoError == "null"

ErrMissingKey == "Missing API Key"

ErrNoAudio == "NO AUDIO DETECTED"

ErrAcquire == "Failed to start recording"

ErrConnection == "Connection error"

ErrFailedToConnect == "Failed to connect"

\* The messages of what connectAndStart catches: one without "Connection"
\* in it and one with.
ConnectFailureMessages == {ErrFailedToConnect, ErrConnection}

ErrTooShort == "Transcript too short to generate minutes"

ErrGenerate == "Failed to generate minutes"

\* The texts the transcription service delivers in this model.
SegmentTexts == { <<"a", "g", "e", "n", "d", "a", " ", "o", "k">> }

\* The texts the service delivers in the transcript-queue specification:
\* two that differ, so that a lost, repeated or reordered one shows.
ShortTexts == { <<"h", "i">>, <<"o", "k">> }

\* The texts session c delivers in the specification of consecutive
\* sessions: the first session's differ from the later ones', so that the
\* session a text came from can be read off the transcript.
SessionTexts(c) == IF c = 1 THEN { <<"h", "i">> } ELSE SegmentTexts

(* ------------------------ numbers of JavaScript ------------------------ *)

\* A JavaScript number is an IEEE 754 double.  The ones the audio utilities
\* and the volume meter compute with are zero and the positive normal
\* doubles, each the value m * 2^e of an integer significand m of exactly 53
\* bits; m is held as its digits in base Base, least significant first,
\* with no leading zero digit, so that no intermediate value exceeds the
\* range of the integers of the model checker.
Base == 4096

DigitBits == 12

Precision == 53

RECURSIVE BitLen(_)
BitLen(n) == IF n = 0 THEN 0 ELSE 1 + BitLen(n \div 2)

RECURSIVE BigNorm(_)
BigNorm(a) ==
    IF a # <<>> /\ a[Len(a)] = 0 THEN BigNorm(SubSeq(a, 1, Len(a) - 1)) ELSE a

RECURSIVE BigOfInt(_)
BigOfInt(n) == IF n = 0 THEN <<>> ELSE <<n % Base>> \o BigOfInt(n \div Base)

RECURSIVE BigToInt(_)
BigToInt(a) == IF a = <<>> THEN 0 ELSE a[1] + Base * BigToInt(Tail(a))

BigBitLen(a) ==
    IF a = <<>> THEN 0 ELSE DigitBits * (Len(a) - 1) + BitLen(a[Len(a)])

BigIsOdd(a) == a # <<>> /\ a[1] % 2 = 1

\* a * m + c, for a digit sequence a and naturals m, c below 2^18
RECURSIVE BigMulSmallC(_, _, _)
BigMulSmallC(a, m, c) ==
    IF a = <<>> THEN BigOfInt(c)
    ELSE LET v == a[1] * m + c
         IN  <<v % Base>> \o BigMulSmallC(Tail(a), m, v \div Base)

BigMulSmall(a, m) == BigNorm(BigMulSmallC(a, m, 0))

RECURSIVE BigAddC(_, _, _)
BigAddC(a, b, c) ==
    IF a = <<>> /\ b = <<>> THEN BigOfInt(c)
    ELSE LET x == IF a = <<>> THEN 0 ELSE a[1]
             y == IF b = <<>> THEN 0 ELSE b[1]
             v == x + y + c
         IN  <<v % Base>> \o BigAddC(IF a = <<>> THEN a ELSE Tail(a),
                                     IF b = <<>> THEN b ELSE Tail(b),
                                     v \div Base)

BigAdd(a, b) == BigNorm(BigAddC(a, b, 0))

\* a - b - c for a >= b + c
RECURSIVE BigSubC(_, _, _)
BigSubC(a, b, c) ==
    IF a = <<>> THEN <<>>
    ELSE LET y == IF b = <<>> THEN 0 ELSE b[1]
             v == a[1] - y - c
         IN  <<IF v < 0 THEN v + Base ELSE v>>
             \o BigSubC(Tail(a), IF b = <<>> THEN b ELSE Tail(b),
                        IF v < 0 THEN 1 ELSE 0)

BigSub(a, b) == BigNorm(BigSubC(a, b, 0))

\* a >= b, for digit sequences of the same length, from the top digit down
RECURSIVE BigGeqSameLen(_, _)
BigGeqSameLen(a, b) ==
    IF a = <<>> THEN TRUE
    ELSE IF a[Len(a)] # b[Len(b)] THEN a[Len(a)] > b[Len(b)]
    ELSE BigGeqSameLen(SubSeq(a, 1, Len(a) - 1), SubSeq(b, 1, Len(b) - 1))

BigGeq(a, b) ==
    IF Len(a) # Len(b) THEN Len(a) > Len(b) ELSE BigGeqSameLen(a, b)

\* a * 2^k
RECURSIVE BigShl(_, _)
BigShl(a, k) ==
    IF a = <<>> THEN a
    ELSE IF k >= DigitBits THEN <<0>> \o BigShl(a, k - DigitBits)
    ELSE BigMulSmall(a, 2^k)

\* floor(a / d) for a natural d below 2^18, from the top digit down with
\* remainder r
RECURSIVE BigDivSmallR(_, _, _)
BigDivSmallR(a, d, r) ==
    IF a = <<>> THEN <<>>
    ELSE LET v == r * Base + a[Len(a)]
         IN  BigDivSmallR(SubSeq(a, 1, Len(a) - 1), d, v % d) \o <<v \div d>>

\* floor(a / 2^k)
BigShr(a, k) ==
    LET drop == k \div DigitBits
    IN  IF drop >= Len(a) THEN <<>>
        ELSE BigNorm(BigDivSmallR(SubSeq(a, drop + 1, Len(a)), 2^(k % DigitBits), 0))

RECURSIVE BigMul(_, _)
BigMul(a, b) ==
    IF b = <<>> \/ a = <<>> THEN <<>>
    ELSE LET rest == BigMul(a, Tail(b))
         IN  IF rest = <<>> THEN BigMulSmall(a, b[1])
             ELSE BigAdd(BigMulSmall(a, b[1]), <<0>> \o rest)

\* The greatest d = d0 + w * h, h in 0 .. 15, with d * b <= r.
BigQuotStep(r, b, d0, w) ==
    d0 + w * (CHOOSE h \in 0 .. 15 :
                 /\ BigGeq(r, BigMulSmall(b, d0 + w * h))
                 /\ h < 15 => ~BigGeq(r, BigMulSmall(b, d0 + w * (h + 1))))

\* The greatest d with d * b <= r, for r < Base * b: one digit of a
\* quotient, found four bits at a time from the top.
BigQuotDigit(r, b) ==
    BigQuotStep(r, b, BigQuotStep(r, b, BigQuotStep(r, b, 0, 256), 16), 1)

\* Quotient and remainder of a by b # 0: long division in base Base, the
\* digits above the lowest first.
RECURSIVE BigDivMod(_, _)
BigDivMod(a, b) ==
    IF a = <<>> THEN [q |-> <<>>, r |-> <<>>]
    ELSE LET above == BigDivMod(Tail(a), b)
             r     == <<a[1]>> \o above.r
             d     == BigQuotDigit(r, b)
         IN  IF above.r = <<>> /\ a[1] = 0
               THEN [q |-> BigNorm(<<0>> \o above.q), r |-> <<>>]
             ELSE IF d = 0
               THEN [q |-> BigNorm(<<0>> \o above.q), r |-> r]
               ELSE [q |-> <<d>> \o above.q,
                     r |-> BigSub(r, BigMulSmall(b, d))]

\* The double nearest to m * 2^e, ties to the even significand
\* (roundTiesToEven, the rounding of every arithmetic operator).
RECURSIVE FRound(_, _)
FRound(m, e) ==
    LET len == BigBitLen(m)
    IN  IF m = <<>> THEN [m |-> <<>>, e |-> 0]
        ELSE IF len <= Precision
          THEN [m |-> BigShl(m, Precision - len), e |-> e - (Precision - len)]
        ELSE LET k    == len - Precision
                 q    == BigShr(m, k)
                 twice == BigShl(m, 1)
                 mid  == BigAdd(BigShl(q, k + 1), BigShl(<<1>>, k))
                 up   == IF twice = mid THEN BigIsOdd(q) ELSE BigGeq(twice, mid)
             IN  IF up THEN FRound(BigAdd(q, <<1>>), e + k)
                       ELSE [m |-> q, e |-> e + k]

\* 0
FZero == [m |-> <<>>, e |-> 0]

\* The double of a natural number below 2^31 (exact).
FOfInt(n) == FRound(BigOfInt(n), 0)

\* x * y
FMul(x, y) == FRound(BigMul(x.m, y.m), x.e + y.e)

\* x + y
FAdd(x, y) ==
    IF x.m = <<>> THEN y
    ELSE IF y.m = <<>> THEN x
    ELSE LET e == IF x.e < y.e THEN x.e ELSE y.e
         IN  FRound(BigAdd(BigShl(x.m, x.e - e), BigShl(y.m, y.e - e)), e)

\* x / y for y # 0 (no rate and no length is divided by zero): the quotient
\* of the significands to three bits more than the precision, and one bit
\* below them set when the division is inexact.
FDiv(x, y) ==
    IF y.m = <<>> \/ x.m = <<>> THEN [m |-> <<>>, e |-> 0]
    ELSE LET t == Precision + 3
             d == BigDivMod(BigShl(x.m, t), y.m)
         IN  IF d.r = <<>>
               THEN FRound(d.q, x.e - y.e - t)
               ELSE FRound(BigAdd(BigMulSmall(d.q, 2), <<1>>), x.e - y.e - t - 1)

\* x <= y
FLeq(x, y) ==
    IF x.m = <<>> THEN TRUE
    ELSE IF y.m = <<>> THEN FALSE
    ELSE LET e == IF x.e < y.e THEN x.e ELSE y.e
         IN  BigGeq(BigShl(y.m, y.e - e), BigShl(x.m, x.e - e))

\* Math.round(x) for x >= 0: floor(x + 1/2), computed exactly.
MathRound(x) ==
    IF x.m = <<>> THEN 0
    ELSE IF x.e >= 0 THEN BigToInt(BigShl(x.m, x.e))
    ELSE BigToInt(BigShr(BigAdd(x.m, BigShl(<<1>>, -x.e - 1)), -x.e))

(* --------------------------- pure functions --------------------------- *)

RECURSIVE TrimStart(_)
TrimStart(s) ==
    IF s = <<>> THEN s
    ELSE IF Head(s) = " " THEN TrimStart(Tail(s)) ELSE s

RECURSIVE TrimEnd(_)
TrimEnd(s) ==
    IF s = <<>> THEN s
    ELSE IF s[Len(s)] = " " THEN TrimEnd(SubSeq(s, 1, Len(s) - 1)) ELSE s

\* String.prototype.trim
Trim(s) == TrimEnd(TrimStart(s))

\* (prev) => prev + " " + newText
AppendSegment(prev, newText) == prev \o <<" ">> \o newText

\* err.message.includes("Connection")
IncludesConnectionAlways(message) == message \in {ErrConnection, ErrFailedToConnect}

IncludesConnection(message) == message = ErrConnection

\* track.stop(): a live track is stopped, an ended or stopped one stays so
StopTrack(t) == IF t = "live" THEN "stopped" ELSE t

\* stream.getTracks().forEach(t => t.stop())
StopAllTracks(s) == [video |-> StopTrack(s.video), audio |-> StopTrack(s.audio)]

\* stream.getAudioTracks().length
AudioTrackCount(s) == IF s.audio = "none" THEN 0 ELSE 1

InFlightStops == BagCardinality(stops) + Len(running)

Idle == running = <<>>

(* -------------------------- audio utilities --------------------------- *)

\* A Float32Array element is NaN or a number; the numbers drawn are the
\* multiples num / SampleDen of 2^-16 up to magnitude 2, every one of them
\* a float32.  Their products with 0x7FFF and 0x8000 have at most 33
\* significant bits, so the double arithmetic of line 8 is exact.
SampleDen == 65536

Sample(n) == [nan |-> FALSE, num |-> n]

NaN == [nan |-> TRUE, num |-> 0]

SampleNums ==
    { -2 * SampleDen, -SampleDen - 1, -SampleDen, -SampleDen + 1,
      -(SampleDen \div 2), -3, -1, 0, 1, 3, SampleDen \div 2,
      SampleDen - 1, SampleDen, SampleDen + 1, 2 * SampleDen }

Samples == { Sample(n) : n \in SampleNums } \cup { NaN }

\* 0x7FFF
PositiveScale == 32767

\* 0x8000
NegativeScale == 32768

\* Math.max(-1, Math.min(1, x)) without the bounds: the sample itself
ClampSampleNot(x) == x

\* Math.max(-1, Math.min(1, x)); NaN stays NaN
ClampSample(x) ==
    IF x.nan THEN x
    ELSE IF x.num > SampleDen THEN Sample(SampleDen)
    ELSE IF x.num < -SampleDen THEN Sample(-SampleDen)
    ELSE x

\* The integral part of (n / SampleDen) * k for n >= 0: the whole units of
\* n times k, and the whole part of the fraction's product.
TruncScaled(n, k) ==
    (n \div SampleDen) * k + ((n % SampleDen) * k) \div SampleDen

\* The store into an Int16Array of a number with integral part t: t modulo
\* 2^16, as a signed 16-bit value.
ToInt16(t) == ((t + 32768) % 65536) - 32768

\* One iteration of the loop of float32ToPCM16: NaN is stored as 0, any
\* other product is truncated toward zero.
PCM16Sample(x) ==
    LET s == ClampSample(x)
    IN  IF s.nan THEN 0
        ELSE IF s.num < 0 THEN ToInt16(-TruncScaled(-s.num, NegativeScale))
        ELSE ToInt16(TruncScaled(s.num, PositiveScale))

float32ToPCM16(float32Array) ==
    [i \in 1 .. Len(float32Array) |-> PCM16Sample(float32Array[i])]

\* The Float32Arrays of at most n samples.
RECURSIVE Float32Arrays(_)
Float32Arrays(n) ==
    IF n = 0 THEN { <<>> }
    ELSE Float32Arrays(n - 1)
         \cup { Append(a, x) : a \in Float32Arrays(n - 1), x \in Samples }

\* The sample rates drawn for downsampleBuffer.
SampleRates == { 7, 14, 17, 18 }

\* <<inputSampleRate, outputSampleRate>>: the output rate is at most the
\* input rate.
RatePairs == { p \in SampleRates \X SampleRates : p[2] <= p[1] }

\* The buffer of n samples drawn: sample i (from 0) is 2^i, so that a sum
\* of samples tells which samples were summed.  Every sum is an integer
\* below 2^53, so the additions of line 49 are exact.
PowerBuffer(n) == [i \in 1 .. n |-> 2^(i - 1)]

\* accum over buffer[i] for from <= i < to (indices from 0)
RECURSIVE Accum(_, _, _)
Accum(buffer, from, to) ==
    IF from >= to THEN 0 ELSE buffer[from + 1] + Accum(buffer, from + 1, to)

\* count > 0 ? accum / count : 0, as a fraction: the rounding of the
\* quotient to a float32 is not modelled.
Quotient(accum, count) ==
    IF count > 0 THEN [num |-> accum, den |-> count] ELSE [num |-> 0, den |-> 1]

Min(a, b) == IF a < b THEN a ELSE b

\* The loop keeps offsetBuffer = nextOffsetBuffer of the iteration before;
\* Math.round of a product by a positive ratio never decreases, so the
\* samples summed in iteration offsetResult are those from offsetBuffer up
\* to nextOffsetBuffer and the end of the buffer.
downsampleBufferKeepsOffset(buffer, inputSampleRate, outputSampleRate) ==
    IF outputSampleRate = inputSampleRate THEN buffer
    ELSE LET sampleRateRatio == FDiv(FOfInt(inputSampleRate), FOfInt(outputSampleRate))
             newLength == MathRound(FDiv(FOfInt(Len(buffer)), sampleRateRatio))
             nextOffsetBuffer(offsetResult) ==
                 MathRound(FMul(FOfInt(offsetResult + 1), sampleRateRatio))
         IN  [k \in 1 .. newLength |->
                LET to == Min(nextOffsetBuffer(k - 1), Len(buffer))
                IN  Quotient(Accum(buffer, 0, to), IF to > 0 THEN to ELSE 0)]

downsampleBuffer(buffer, inputSampleRate, outputSampleRate) ==
    IF outputSampleRate = inputSampleRate THEN buffer
    ELSE LET sampleRateRatio == FDiv(FOfInt(inputSampleRate), FOfInt(outputSampleRate))
             newLength == MathRound(FDiv(FOfInt(Len(buffer)), sampleRateRatio))
             nextOffsetBuffer(offsetResult) ==
                 MathRound(FMul(FOfInt(offsetResult + 1), sampleRateRatio))
             offsetBuffer(offsetResult) ==
                 IF offsetResult = 0 THEN 0 ELSE nextOffsetBuffer(offsetResult - 1)
         IN  [k \in 1 .. newLength |->
                LET from == offsetBuffer(k - 1)
                    to   == Min(nextOffsetBuffer(k - 1), Len(buffer))
                IN  Quotient(Accum(buffer, from, to),
                             IF to > from THEN to - from ELSE 0)]

(* ---------------------------- volume meter ---------------------------- *)

\* The literals 0.8 and 0.2: the doubles nearest to 4/5 and 1/5.
SmoothKeep == FDiv(FOfInt(4), FOfInt(5))

SmoothTake == FDiv(FOfInt(1), FOfInt(5))

\* The rms of a frame: Math.sqrt(sum / inputData.length) of a silent frame
\* is 0; of a frame of samples +-3/4 it is sqrt(2304 / 4096) = 3/4 and of a
\* frame of samples +-1 it is 1, every operation exact.
FrameLevels == { FZero, FDiv(FOfInt(3), FOfInt(4)), FOfInt(1) }

\* prev => (prev * 0.8) + (level * 0.2)
Smooth(prev, level) == FAdd(FMul(prev, SmoothKeep), FMul(level, SmoothTake))

(* ------------------------------- Init --------------------------------- *)

InitApp ==
    /\ status = "IDLE"
    /\ transcript = <<>>
    /\ minutes = <<>>
    /\ sourceType = "SYSTEM_AUDIO"
    /\ error = NoError
    /\ apiKey \in BOOLEAN
    /\ liveClientRef = 0
    /\ transcriptRef = <<>>
    /\ clients = <<>>
    /\ streams = <<>>
    /\ starts = EmptyBag
    /\ stops = EmptyBag
    /\ running = <<>>

\* Nothing is queued, delivered, metered, called or buffered.
NoCall == [fn |-> "none"]

NoBatch == [state |-> "none"]

NoMeter == [rms |-> FZero, frames |-> 0]

InitAux ==
    /\ updates = <<>>
    /\ delivered = <<>>
    /\ volumeLevel = FZero
    /\ meter = NoMeter
    /\ call = NoCall
    /\ batch = NoBatch

Init == InitApp /\ InitAux

\* One call of float32ToPCM16 about to be made, on any buffer.
InitPCM ==
    /\ InitApp
    /\ updates = <<>>
    /\ delivered = <<>>
    /\ volumeLevel = FZero
    /\ meter = NoMeter
    /\ call \in { [fn |-> "float32ToPCM16", float32Array |-> a,
                   int16Array |-> <<>>, returned |-> FALSE] :
                  a \in Float32Arrays(MaxSamples) }
    /\ batch = NoBatch

\* float32ToPCM16(float32Array) runs and returns int16Array.
CallFloat32ToPCM16 ==
    /\ call.fn = "float32ToPCM16"
    /\ ~call.returned
    /\ call' = [call EXCEPT !.int16Array = float32ToPCM16(call.float32Array),
                            !.returned = TRUE]
    /\ UNCHANGED <<status, transcript, minutes, sourceType, error, apiKey,
                   liveClientRef, transcriptRef, clients, streams, starts,
                   stops, running, updates, delivered, volumeLevel, meter, batch>>

(* -------------------------- user interface ---------------------------- *)

\* renderIdle: onClick={() => setSourceType(s)}
SetSourceType(s) ==
    /\ Idle
    /\ status = "IDLE"
    /\ sourceType # s
    /\ sourceType' = s
    /\ UNCHANGED <<status, transcript, minutes, error, apiKey, liveClientRef,
                   transcriptRef, clients, streams, starts, stops, running>>

\* the error banner: onClick={() => setError(null)}
DismissError ==
    /\ Idle
    /\ error # NoError
    /\ error' = NoError
    /\ UNCHANGED <<status, transcript, minutes, sourceType, apiKey, liveClientRef,
                   transcriptRef, clients, streams, starts, stops, running>>

\* A mutation of handleReset: the error is not cleared.
HandleResetKeepsError ==
    /\ Idle
    /\ transcript' = <<>>
    /\ minutes' = <<>>
    /\ status' = "IDLE"
    /\ UNCHANGED <<sourceType, error, apiKey, liveClientRef, transcriptRef,
                   clients, streams, starts, stops, running>>

\* handleReset, from the header (shown in every status) or "New Meeting"
HandleReset ==
    /\ Idle
    /\ transcript' = <<>>
    /\ minutes' = <<>>
    /\ status' = "IDLE"
    /\ error' = NoError
    /\ UNCHANGED <<sourceType, apiKey, liveClientRef, transcriptRef, clients,
                   streams, starts, stops, running>>

\* useEffect(() => { transcriptRef.current = transcript }, [transcript])
SyncTranscriptRef ==
    /\ Idle
    /\ transcriptRef # transcript
    /\ transcriptRef' = transcript
    /\ UNCHANGED <<status, transcript, minutes, sourceType, error, apiKey,
                   liveClientRef, clients, streams, starts, stops, running>>

(* ----------------------- handleStartRecording ------------------------- *)

\* The start button (renderIdle) up to the first await: setError(null), the
\* API key check, then getDisplayMedia or getUserMedia is requested.
StartClickSkipsKeyCheck ==
    /\ Idle
    /\ status = "IDLE"
    /\ error' = NoError
    /\ starts' = starts (+) SetToBag({[src |-> sourceType, st |-> status]})
    /\ UNCHANGED <<status, transcript, minutes, sourceType, apiKey, liveClientRef,
                   transcriptRef, clients, streams, stops, running>>

StartClick ==
    /\ Idle
    /\ status = "IDLE"
    /\ IF ~apiKey
         THEN /\ error' = ErrMissingKey
              /\ UNCHANGED starts
         ELSE /\ error' = NoError
              /\ starts' = starts (+) SetToBag({[src |-> sourceType, st |-> status]})
    /\ UNCHANGED <<status, transcript, minutes, sourceType, apiKey, liveClientRef,
                   transcriptRef, clients, streams, stops, running>>

\* The acquisition promise rejects.  Display capture: the inner catch returns.
\* Microphone: the outer catch sets the error and status IDLE.
AcquireRejected(t) ==
    /\ Idle
    /\ BagIn(t, starts)
    /\ starts' = starts (-) SetToBag({t})
    /\ IF t.src = "SYSTEM_AUDIO"
         THEN UNCHANGED <<error, status>>
         ELSE /\ error' = ErrAcquire
              /\ status' = "IDLE"
    /\ UNCHANGED <<transcript, minutes, sourceType, apiKey, liveClientRef,
                   transcriptRef, clients, streams, stops, running>>

\* A mutation of AcquireNoAudio: the video track of the rejected stream is
\* left running.
AcquireNoAudioKeepsTracks(t) ==
    /\ Idle
    /\ BagIn(t, starts)
    /\ t.src = "SYSTEM_AUDIO"
    /\ starts' = starts (-) SetToBag({t})
    /\ streams' = Append(streams, [video |-> "live", audio |-> "none"])
    /\ error' = ErrNoAudio
    /\ status' = "IDLE"
    /\ UNCHANGED <<transcript, minutes, sourceType, apiKey, liveClientRef,
                   transcriptRef, clients, stops, running>>

\* Display capture resolves with a stream that has no audio track: every
\* track is stopped and the thrown error reaches the outer catch.
AcquireNoAudio(t) ==
    /\ Idle
    /\ BagIn(t, starts)
    /\ t.src = "SYSTEM_AUDIO"
    /\ starts' = starts (-) SetToBag({t})
    /\ LET stream == [video |-> "live", audio |-> "none"]
       IN  /\ AudioTrackCount(stream) = 0
           /\ streams' = Append(streams, StopAllTracks(stream))
    /\ error' = ErrNoAudio
    /\ status' = "IDLE"
    /\ UNCHANGED <<transcript, minutes, sourceType, apiKey, liveClientRef,
                   transcriptRef, clients, stops, running>>

\* new LiveTranscriptionClient(...) followed by connectAndStart(stream): the
\* stream is kept, the audio context created and the connection requested.
\* st is the status captured by the handleStopRecording that the error
\* callback and the 'ended' listeners call.  promise is the state of
\* sessionPromise; frames counts the onaudioprocess events; queue holds the
\* frames whose send waits on sessionPromise.then; sent lists the frames
\* passed to session.sendRealtimeInput, in call order.  began (disconnect()
\* has been called) and late (a send was made after that) only record.
\* closeCalled: audioContext.close() has been called and not rejected, after
\* which the browser rejects every other close() with InvalidStateError;
\* closedTwice records that a disconnect() was rejected in this way.
NewClient(stream, st) ==
    [ processor |-> FALSE, inputSource |-> FALSE,
      audioContext |-> TRUE, ctx |-> "running",
      mediaStream |-> TRUE, stream |-> stream,
      session |-> "connecting", st |-> st,
      entered |-> 0, generated |-> 0,
      promise |-> "pending", frames |-> 0, queue |-> <<>>, sent |-> <<>>,
      began |-> FALSE, late |-> FALSE, closeCalled |-> FALSE,
      closedTwice |-> FALSE ]

\* The acquisition resolves with a stream that has an audio track.
AcquireOk(t) ==
    /\ Idle
    /\ BagIn(t, starts)
    /\ starts' = starts (-) SetToBag({t})
    /\ LET stream == IF t.src = "SYSTEM_AUDIO"
                       THEN [video |-> "live", audio |-> "live"]
                       ELSE [video |-> "none", audio |-> "live"]
       IN  /\ AudioTrackCount(stream) > 0
           /\ streams' = Append(streams, stream)
    /\ status' = "RECORDING"
    /\ transcript' = <<>>
    /\ clients' = Append(clients, NewClient(Len(streams) + 1, t.st))
    /\ liveClientRef' = Len(clients) + 1
    /\ UNCHANGED <<minutes, sourceType, error, apiKey, transcriptRef, stops,
                   running>>

(* --------------------- LiveTranscriptionClient ------------------------ *)

\* startAudioStreaming, called by onopen: returns at once unless the audio
\* context, the media stream and the session promise are all set.
StartAudioStreaming(cl) ==
    IF ~cl.audioContext \/ ~cl.mediaStream
      THEN cl
      ELSE [cl EXCEPT !.inputSource = TRUE, !.processor = TRUE]

\* callbacks.onopen of the session requested by connectAndStart
SessionOpen(c) ==
    /\ Idle
    /\ c \in DOMAIN clients
    /\ clients[c].session = "connecting"
    /\ clients' = [clients EXCEPT
                     ![c] = StartAudioStreaming([@ EXCEPT !.session = "open"])]
    /\ UNCHANGED <<status, transcript, minutes, sourceType, error, apiKey,
                   liveClientRef, transcriptRef, streams, starts, stops, running>>

\* callbacks.onmessage with an input transcription: onTranscriptionCallback
\* runs setTranscript((prev) => prev + " " + newText).
SessionMessage(c, text) ==
    /\ Idle
    /\ c \in DOMAIN clients
    /\ clients[c].session = "open"
    /\ text # <<>>
    /\ Len(AppendSegment(transcript, text)) <= MaxTranscriptLen
    /\ transcript' = AppendSegment(transcript, text)
    /\ UNCHANGED <<status, minutes, sourceType, error, apiKey, liveClientRef,
                   transcriptRef, clients, streams, starts, stops, running>>

\* The synchronous part of disconnect() on client cl: processor and input
\* source are disconnected and dropped.
DisconnectNodes(cl) ==
    [cl EXCEPT !.processor = FALSE, !.inputSource = FALSE, !.began = TRUE]

\* sessionPromise resolves with the session, after onopen: the callbacks
\* queued by sessionPromise.then run in the order they were queued, each
\* calling session.sendRealtimeInput.
SessionResolved(c) ==
    /\ Idle
    /\ c \in DOMAIN clients
    /\ clients[c].session = "open"
    /\ clients[c].promise = "pending"
    /\ clients' = [clients EXCEPT
                     ![c].promise = "resolved",
                     ![c].sent = @ \o clients[c].queue,
                     ![c].queue = <<>>,
                     ![c].late = @ \/ (clients[c].began /\ clients[c].queue # <<>>)]
    /\ UNCHANGED <<status, transcript, minutes, sourceType, error, apiKey,
                   liveClientRef, transcriptRef, streams, starts, stops, running>>

\* A variant of onaudioprocess that sends only through a session already
\* resolved and drops the frame otherwise.
AudioProcessDropsPending(c) ==
    /\ Idle
    /\ c \in DOMAIN clients
    /\ clients[c].processor
    /\ clients[c].inputSource
    /\ clients[c].ctx = "running"
    /\ LET frame == clients[c].frames + 1
       IN  clients' = [clients EXCEPT
               ![c].frames = frame,
               ![c].sent = IF clients[c].promise = "resolved"
                             THEN Append(@, frame) ELSE @,
               ![c].late = @ \/ (clients[c].began
                                   /\ clients[c].promise = "resolved")]
    /\ UNCHANGED <<status, transcript, minutes, sourceType, error, apiKey,
                   liveClientRef, transcriptRef, streams, starts, stops, running>>

\* processor.onaudioprocess on a connected processor of a context that is
\* not closed: the frame is encoded and its send chained on sessionPromise;
\* on a resolved promise the send runs before anything else does.
AudioProcess(c) ==
    /\ Idle
    /\ c \in DOMAIN clients
    /\ clients[c].processor
    /\ clients[c].inputSource
    /\ clients[c].ctx = "running"
    /\ LET frame == clients[c].frames + 1
       IN  clients' = [clients EXCEPT
               ![c].frames = frame,
               ![c].queue = IF clients[c].promise = "pending"
                              THEN Append(@, frame) ELSE @,
               ![c].sent = IF clients[c].promise = "resolved"
                             THEN Append(@, frame) ELSE @,
               ![c].late = @ \/ (clients[c].began
                                   /\ clients[c].promise = "resolved")]
    /\ UNCHANGED <<status, transcript, minutes, sourceType, error, apiKey,
                   liveClientRef, transcriptRef, streams, starts, stops, running>>

\* The rest of disconnect() once audioContext.close() has resolved (or when
\* there was no audio context): the context is dropped, the tracks stopped.
DisconnectRelease(cl) == [cl EXCEPT !.audioContext = FALSE, !.mediaStream = FALSE]

(* ------------------------ handleStopRecording ------------------------- *)

\* A variant of handleStopRecording's first part in which every
\* audioContext.close() is awaited, a repeated one included.
InvokeStopClosesAgain(trig, st, ref, cls, strs) ==
    LET c  == ref
        t  == [trig |-> trig, st |-> st, client |-> c, pc |-> "closing",
               text |-> <<>>]
    IN  IF c = 0
          THEN /\ running' = <<[t EXCEPT !.pc = "resume"]>>
               /\ clients' = cls
               /\ streams' = strs
               /\ stops' = stops
          ELSE IF cls[c].audioContext
            THEN /\ stops' = stops (+) SetToBag({t})
                 /\ clients' = [cls EXCEPT
                                  ![c] = [DisconnectNodes(@) EXCEPT
                                            !.closeCalled = TRUE]]
                 /\ streams' = strs
                 /\ running' = running
            ELSE /\ running' = <<[t EXCEPT !.pc = "resume"]>>
                 /\ clients' = [cls EXCEPT
                                  ![c] = DisconnectRelease(DisconnectNodes(@))]
                 /\ streams' = IF cls[c].mediaStream
                                 THEN [strs EXCEPT
                                         ![cls[c].stream] = StopAllTracks(@)]
                                 ELSE strs
                 /\ stops' = stops

\* handleStopRecording is invoked with captured status st, by trigger trig
\* ("button", "ended" or "error"), when liveClientRef.current is ref and the
\* clients and streams are cls and strs.  Up to the first suspension: with
\* no live client the continuation is next; with one, disconnect() drops the
\* processor and the input source and then
\*  - awaits audioContext.close(), when the client has an audio context;
\*  - rejects, when close() was called on that context before: the second
\*    close() rejects, so does disconnect(), so does handleStopRecording at
\*    its await, and nothing else of either runs;
\*  - stops the tracks, when the client has no audio context; the
\*    continuation is next.
InvokeStop(trig, st, ref, cls, strs) ==
    LET c  == ref
        t  == [trig |-> trig, st |-> st, client |-> c, pc |-> "closing",
               text |-> <<>>]
    IN  IF c = 0
          THEN /\ running' = <<[t EXCEPT !.pc = "resume"]>>
               /\ clients' = cls
               /\ streams' = strs
               /\ stops' = stops
          ELSE IF cls[c].audioContext /\ ~cls[c].closeCalled
            THEN /\ stops' = stops (+) SetToBag({t})
                 /\ clients' = [cls EXCEPT
                                  ![c] = [DisconnectNodes(@) EXCEPT
                                            !.closeCalled = TRUE]]
                 /\ streams' = strs
                 /\ running' = running
          ELSE IF cls[c].audioContext
            THEN /\ clients' = [cls EXCEPT
                                  ![c] = [DisconnectNodes(@) EXCEPT
                                            !.closedTwice = TRUE]]
                 /\ streams' = strs
                 /\ stops' = stops
                 /\ running' = running
            ELSE /\ running' = <<[t EXCEPT !.pc = "resume"]>>
                 /\ clients' = [cls EXCEPT
                                  ![c] = DisconnectRelease(DisconnectNodes(@))]
                 /\ streams' = IF cls[c].mediaStream
                                 THEN [strs EXCEPT
                                         ![cls[c].stream] = StopAllTracks(@)]
                                 ELSE strs
                 /\ stops' = stops

\* The acquisition resolves with a stream that has an audio track, and
\* connectAndStart catches an exception: thrown by the AudioContext
\* constructor (stage "context": no context, no session) or by the connect
\* call (stage "connect": a context, no session).  The catch hands the error
\* to the App's callback, which sets the error and, when the message
\* includes "Connection", calls handleStopRecording; connectAndStart then
\* returns normally and the 'ended' listeners are added.
AcquireOkConnectFails(t, stage, message) ==
    /\ Idle
    /\ BagIn(t, starts)
    /\ starts' = starts (-) SetToBag({t})
    /\ status' = "RECORDING"
    /\ transcript' = <<>>
    /\ liveClientRef' = Len(clients) + 1
    /\ error' = message
    /\ LET stream == IF t.src = "SYSTEM_AUDIO"
                       THEN [video |-> "live", audio |-> "live"]
                       ELSE [video |-> "none", audio |-> "live"]
           cl == [NewClient(Len(streams) + 1, t.st) EXCEPT
                    !.audioContext = (stage = "connect"),
                    !.ctx = IF stage = "connect" THEN "running" ELSE "none",
                    !.session = "none",
                    !.promise = "none"]
       IN  /\ AudioTrackCount(stream) > 0
           /\ IF IncludesConnection(message)
                THEN /\ InFlightStops < MaxStops
                     /\ InvokeStop("error", t.st, Len(clients) + 1,
                                   Append(clients, cl), Append(streams, stream))
                ELSE /\ clients' = Append(clients, cl)
                     /\ streams' = Append(streams, stream)
                     /\ UNCHANGED <<stops, running>>
    /\ UNCHANGED <<minutes, sourceType, apiKey, transcriptRef>>

\* renderRecording: <Button onClick={handleStopRecording}>
StopClick ==
    /\ Idle
    /\ status = "RECORDING"
    /\ InFlightStops < MaxStops
    /\ InvokeStop("button", status, liveClientRef, clients, streams)
    /\ UNCHANGED <<status, transcript, minutes, sourceType, error, apiKey,
                   liveClientRef, transcriptRef, starts>>

\* 'ended' on the video or the audio track of the stream of client c (the
\* user stops sharing, the device goes away): the listener added by
\* handleStartRecording calls the handleStopRecording of that render.
TrackEnded(c, kind) ==
    /\ Idle
    /\ c \in DOMAIN clients
    /\ streams[clients[c].stream][kind] = "live"
    /\ InFlightStops < MaxStops
    /\ InvokeStop("ended", clients[c].st, liveClientRef, clients,
                  [streams EXCEPT ![clients[c].stream][kind] = "ended"])
    /\ UNCHANGED <<status, transcript, minutes, sourceType, error, apiKey,
                   liveClientRef, transcriptRef, starts>>

\* callbacks.onerror: onErrorCallback(new Error("Connection error")); the
\* App's callback sets the error and, the message including "Connection",
\* calls handleStopRecording.
SessionError(c) ==
    /\ Idle
    /\ c \in DOMAIN clients
    /\ clients[c].session \in {"connecting", "open"}
    /\ InFlightStops < MaxStops
    /\ error' = ErrConnection
    /\ IF IncludesConnection(ErrConnection)
         THEN InvokeStop("error", clients[c].st, liveClientRef,
                         [clients EXCEPT ![c].session = "error"], streams)
         ELSE /\ clients' = [clients EXCEPT ![c].session = "error"]
              /\ UNCHANGED <<streams, stops, running>>
    /\ UNCHANGED <<status, transcript, minutes, sourceType, apiKey,
                   liveClientRef, transcriptRef, starts>>

\* audioContext.close() of a suspended disconnect() resolves: disconnect()
\* drops the context, stops every track of the media stream and resolves;
\* the continuation of handleStopRecording is next.
CloseResolved(t) ==
    /\ Idle
    /\ BagIn(t, stops)
    /\ t.pc = "closing"
    /\ stops' = stops (-) SetToBag({t})
    /\ clients' = [clients EXCEPT
                     ![t.client] = [DisconnectRelease(@) EXCEPT !.ctx = "closed"]]
    /\ streams' = IF clients[t.client].mediaStream
                    THEN [streams EXCEPT
                            ![clients[t.client].stream] = StopAllTracks(@)]
                    ELSE streams
    /\ running' = <<[t EXCEPT !.pc = "resume"]>>
    /\ UNCHANGED <<status, transcript, minutes, sourceType, error, apiKey,
                   liveClientRef, transcriptRef, starts>>

\* audioContext.close() rejects without closing the context (the document
\* is not fully active): disconnect() rejects at its await, and so does
\* handleStopRecording at `await liveClientRef.current.disconnect()`.
CloseRejected(t) ==
    /\ Idle
    /\ BagIn(t, stops)
    /\ t.pc = "closing"
    /\ stops' = stops (-) SetToBag({t})
    /\ clients' = [clients EXCEPT ![t.client].closeCalled = FALSE]
    /\ UNCHANGED <<status, transcript, minutes, sourceType, error, apiKey,
                   liveClientRef, transcriptRef, streams, starts, running>>

\* handleStopRecording after disconnect(): liveClientRef.current = null (only
\* inside `if (liveClientRef.current)`), then the test of the captured status:
\* setStatus(PROCESSING), or setStatus(IDLE) in the else branch.
StopResume ==
    /\ running # <<>>
    /\ running[1].pc = "resume"
    /\ LET t == running[1]
       IN  /\ liveClientRef' = IF t.client # 0 THEN 0 ELSE liveClientRef
           /\ IF t.st = "RECORDING"
                THEN /\ status' = "PROCESSING"
                     /\ running' = <<[t EXCEPT !.pc = "check"]>>
                     /\ clients' = IF t.client # 0 /\ status # "PROCESSING"
                                     THEN [clients EXCEPT ![t.client].entered = @ + 1]
                                     ELSE clients
                ELSE /\ status' = "IDLE"
                     /\ running' = <<>>
                     /\ clients' = clients
    /\ UNCHANGED <<transcript, minutes, sourceType, error, apiKey, transcriptRef,
                   streams, starts, stops>>

\* handleStopRecording after setStatus(PROCESSING): the length test on
\* transcriptRef.current, then either the error and IDLE, or the call of
\* generateMinutes(transcriptRef.current).
StopCheck ==
    /\ running # <<>>
    /\ running[1].pc = "check"
    /\ LET t == running[1]
       IN  /\ IF Len(Trim(transcriptRef)) < MinTranscriptLen
                THEN /\ error' = ErrTooShort
                     /\ status' = "IDLE"
                     /\ UNCHANGED <<stops, clients>>
                ELSE /\ stops' = stops (+) SetToBag({[t EXCEPT !.pc = "generating",
                                                           !.text = transcriptRef]})
                     /\ clients' = IF t.client # 0
                                     THEN [clients EXCEPT ![t.client].generated = @ + 1]
                                     ELSE clients
                     /\ UNCHANGED <<error, status>>
           /\ running' = <<>>
    /\ UNCHANGED <<transcript, minutes, sourceType, apiKey, liveClientRef,
                   transcriptRef, streams, starts>>

\* The promise of generateMinutes settles, resolved or rejected; the
\* continuation of handleStopRecording is next.
GenerateSettled(t, outcome) ==
    /\ Idle
    /\ BagIn(t, stops)
    /\ t.pc = "generating"
    /\ stops' = stops (-) SetToBag({t})
    /\ running' = <<[t EXCEPT !.pc = outcome]>>
    /\ UNCHANGED <<status, transcript, minutes, sourceType, error, apiKey,
                   liveClientRef, transcriptRef, clients, streams, starts>>

\* A mutation of GenerateResolved: status REVIEWING without the minutes.
GenerateResolvedDropsMinutes ==
    /\ running # <<>>
    /\ running[1].pc = "resolved"
    /\ status' = "REVIEWING"
    /\ running' = <<>>
    /\ UNCHANGED <<transcript, minutes, sourceType, error, apiKey, liveClientRef,
                   transcriptRef, clients, streams, starts, stops>>

\* handleStopRecording after generateMinutes resolved: setMinutes,
\* setStatus(REVIEWING).
GenerateResolved ==
    /\ running # <<>>
    /\ running[1].pc = "resolved"
    /\ minutes' = <<running[1].text>>
    /\ status' = "REVIEWING"
    /\ running' = <<>>
    /\ UNCHANGED <<transcript, sourceType, error, apiKey, liveClientRef,
                   transcriptRef, clients, streams, starts, stops>>

\* A mutation of GenerateRejected: the catch calls generateMinutes again.
GenerateRejectedRetries ==
    /\ running # <<>>
    /\ running[1].pc = "rejected"
    /\ error' = ErrGenerate
    /\ stops' = stops (+) SetToBag({[running[1] EXCEPT !.pc = "generating"]})
    /\ running' = <<>>
    /\ UNCHANGED <<status, transcript, minutes, sourceType, apiKey, liveClientRef,
                   transcriptRef, clients, streams, starts>>

\* handleStopRecording after generateMinutes rejected: the catch sets the
\* error and status IDLE.
GenerateRejected ==
    /\ running # <<>>
    /\ running[1].pc = "rejected"
    /\ error' = ErrGenerate
    /\ status' = "IDLE"
    /\ running' = <<>>
    /\ UNCHANGED <<transcript, minutes, sourceType, apiKey, liveClientRef,
                   transcriptRef, clients, streams, starts, stops>>

(* -------------------------- transcript queue -------------------------- *)

\* One queued update of useState's `transcript` applied to prev: an updater
\* function (prev) => prev + " " + newText, or a plain value.
ApplyUpdate(prev, u) ==
    IF u.kind = "updater" THEN AppendSegment(prev, u.text) ELSE u.value

\* React processes the queued updates of a state in the order of the calls.
RECURSIVE ApplyUpdates(_, _)
ApplyUpdates(prev, us) ==
    IF us = <<>> THEN prev ELSE ApplyUpdates(ApplyUpdate(prev, us[1]), Tail(us))

\* A variant of onmessage whose callback passes setTranscript the value
\* computed from the transcript of the last render.
OnMessageSetsValue(c, text, finished) ==
    /\ Idle
    /\ c \in DOMAIN clients
    /\ clients[c].session = "open"
    /\ IF text # <<>>
         THEN /\ updates' = Append(updates,
                                [kind |-> "value",
                                 value |-> AppendSegment(transcript, text)])
              /\ delivered' = Append(delivered,
                                  [text |-> text, finished |-> finished])
         ELSE UNCHANGED <<updates, delivered>>
    /\ UNCHANGED <<status, transcript, minutes, sourceType, error, apiKey,
                   liveClientRef, transcriptRef, clients, streams, starts, stops,
                   running, volumeLevel, meter, call, batch>>

\* A variant of onmessage that drops a text equal to the one before it.
OnMessageDeduplicates(c, text, finished) ==
    /\ Idle
    /\ c \in DOMAIN clients
    /\ clients[c].session = "open"
    /\ IF text # <<>>
         THEN /\ updates' = IF delivered # <<>> /\ delivered[Len(delivered)].text = text
                              THEN updates
                              ELSE Append(updates, [kind |-> "updater", text |-> text])
              /\ delivered' = Append(delivered,
                                  [text |-> text, finished |-> finished])
         ELSE UNCHANGED <<updates, delivered>>
    /\ UNCHANGED <<status, transcript, minutes, sourceType, error, apiKey,
                   liveClientRef, transcriptRef, clients, streams, starts, stops,
                   running, volumeLevel, meter, call, batch>>

\* callbacks.onmessage with an input transcription of the given text and
\* `finished` flag, seen with React's update queue: `if (text)` skips a
\* message without text; otherwise onTranscriptionCallback(text) runs
\* setTranscript((prev) => prev + " " + newText), which queues the updater.
\* The flag is not read.  SessionMessage is this step with the render that
\* follows it.
OnMessage(c, text, finished) ==
    /\ Idle
    /\ c \in DOMAIN clients
    /\ clients[c].session = "open"
    /\ IF text # <<>>
         THEN /\ updates' = Append(updates, [kind |-> "updater", text |-> text])
              /\ delivered' = Append(delivered,
                                  [text |-> text, finished |-> finished])
         ELSE UNCHANGED <<updates, delivered>>
    /\ UNCHANGED <<status, transcript, minutes, sourceType, error, apiKey,
                   liveClientRef, transcriptRef, clients, streams, starts, stops,
                   running, volumeLevel, meter, call, batch>>

\* React renders App: the queued updates of `transcript` are applied in
\* order, all of them in this one render.
Render ==
    /\ Idle
    /\ updates # <<>>
    /\ transcript' = ApplyUpdates(transcript, updates)
    /\ updates' = <<>>
    /\ UNCHANGED <<status, minutes, sourceType, error, apiKey, liveClientRef,
                   transcriptRef, clients, streams, starts, stops, running,
                   delivered, volumeLevel, meter, call, batch>>

(* --------------------------- specification ---------------------------- *)

Next ==
    \/ \E s \in AudioSourceType : SetSourceType(s) /\ UNCHANGED aux
    \/ DismissError /\ UNCHANGED aux
    \/ HandleReset /\ UNCHANGED aux
    \/ SyncTranscriptRef /\ UNCHANGED aux
    \/ StartClick /\ BagCardinality(starts') <= MaxStarts /\ UNCHANGED aux
    \/ \E t \in BagToSet(starts) : AcquireRejected(t) /\ UNCHANGED aux
    \/ \E t \in BagToSet(starts) : AcquireNoAudio(t) /\ Len(streams') <= MaxStreams
          /\ UNCHANGED aux
    \/ \E t \in BagToSet(starts) : AcquireOk(t) /\ Len(streams') <= MaxStreams
          /\ UNCHANGED aux
    \/ \E t \in BagToSet(starts) : \E stage \in {"context", "connect"} :
          \E message \in ConnectFailureMessages :
             AcquireOkConnectFails(t, stage, message) /\ Len(streams') <= MaxStreams
          /\ UNCHANGED aux
    \/ \E c \in DOMAIN clients : SessionOpen(c) /\ UNCHANGED aux
    \/ \E c \in DOMAIN clients : \E text \in SegmentTexts : SessionMessage(c, text)
          /\ UNCHANGED aux
    \/ \E c \in DOMAIN clients : SessionError(c) /\ UNCHANGED aux
    \/ \E c \in DOMAIN clients : \E kind \in {"video", "audio"} : TrackEnded(c, kind)
          /\ UNCHANGED aux
    \/ StopClick /\ UNCHANGED aux
    \/ \E t \in BagToSet(stops) : CloseResolved(t) /\ UNCHANGED aux
    \/ \E t \in BagToSet(stops) : CloseRejected(t) /\ UNCHANGED aux
    \/ StopResume /\ UNCHANGED aux
    \/ StopCheck /\ UNCHANGED aux
    \/ \E t \in BagToSet(stops) : \E outcome \in {"resolved", "rejected"} :
          GenerateSettled(t, outcome)
          /\ UNCHANGED aux
    \/ GenerateResolved /\ UNCHANGED aux
    \/ GenerateRejected /\ UNCHANGED aux

Spec == Init /\ [][Next]_vars

\* The continuation of a handleStopRecording that holds the thread runs: a
\* continuation whose promise has settled is a microtask, run before any
\* other event.
Continue ==
    (StopResume \/ StopCheck \/ GenerateResolved \/ GenerateRejected)
      /\ UNCHANGED aux

\* The promise of a generateMinutes call settles, one way or the other.
Settle ==
    \E t \in BagToSet(stops) : \E outcome \in {"resolved", "rejected"} :
        GenerateSettled(t, outcome) /\ UNCHANGED aux

\* Spec, where continuations run and every summarization call settles.
SpecLive == Init /\ [][Next]_vars /\ WF_vars(Continue) /\ WF_vars(Settle)

\* One recording with its audio path: the frames of the script processor
\* and their sends, interleaved with connect, stop and release.
NextAudio ==
    \/ StartClick /\ BagCardinality(starts') <= MaxStarts /\ UNCHANGED aux
    \/ \E t \in BagToSet(starts) : AcquireOk(t) /\ Len(streams') <= MaxStreams
          /\ UNCHANGED aux
    \/ \E c \in DOMAIN clients : SessionOpen(c) /\ UNCHANGED aux
    \/ \E c \in DOMAIN clients : SessionResolved(c) /\ UNCHANGED aux
    \/ \E c \in DOMAIN clients : AudioProcess(c) /\ clients'[c].frames <= MaxFrames
          /\ UNCHANGED aux
    \/ \E c \in DOMAIN clients : SessionError(c) /\ UNCHANGED aux
    \/ \E c \in DOMAIN clients : \E kind \in {"video", "audio"} : TrackEnded(c, kind)
          /\ UNCHANGED aux
    \/ StopClick /\ UNCHANGED aux
    \/ \E t \in BagToSet(stops) : CloseResolved(t) /\ UNCHANGED aux
    \/ \E t \in BagToSet(stops) : CloseRejected(t) /\ UNCHANGED aux
    \/ StopResume /\ UNCHANGED aux
    \/ StopCheck /\ UNCHANGED aux

SpecAudio == Init /\ [][NextAudio]_vars

\* Two recordings: a start invoked again before the first acquisition has
\* resolved, or after a reset or a stop, with no segment delivered.
NextTwo ==
    \/ \E s \in AudioSourceType : SetSourceType(s) /\ UNCHANGED aux
    \/ HandleReset /\ UNCHANGED aux
    \/ StartClick /\ BagCardinality(starts') <= MaxPendingStarts /\ UNCHANGED aux
    \/ \E t \in BagToSet(starts) : AcquireRejected(t) /\ UNCHANGED aux
    \/ \E t \in BagToSet(starts) : AcquireOk(t) /\ Len(streams') <= MaxSessions
          /\ UNCHANGED aux
    \/ \E c \in DOMAIN clients : SessionOpen(c) /\ UNCHANGED aux
    \/ StopClick /\ UNCHANGED aux
    \/ \E t \in BagToSet(stops) : CloseResolved(t) /\ UNCHANGED aux
    \/ StopResume /\ UNCHANGED aux
    \/ StopCheck /\ UNCHANGED aux

SpecTwo == Init /\ [][NextTwo]_vars

\* One recording with React's update queue: segments are delivered while
\* earlier updates of the transcript wait for a render, so that every way
\* of batching them is a behaviour.  setTranscript("") of
\* handleStartRecording is queued behind the updaters that wait, and the
\* render gives "": the queue and the history of deliveries start again.
NextAccumulate ==
    \/ StartClick /\ BagCardinality(starts') <= MaxStarts /\ UNCHANGED aux
    \/ \E t \in BagToSet(starts) : AcquireOk(t) /\ Len(streams') <= MaxStreams
          /\ updates' = <<>> /\ delivered' = <<>>
          /\ UNCHANGED <<volumeLevel, meter, call, batch>>
    \/ \E c \in DOMAIN clients : SessionOpen(c) /\ UNCHANGED aux
    \/ \E c \in DOMAIN clients : \E text \in ShortTexts \cup {<<>>} :
          \E finished \in BOOLEAN :
             OnMessage(c, text, finished) /\ Len(delivered') <= MaxSegments
    \/ Render

SpecAccumulate == Init /\ [][NextAccumulate]_vars

\* Consecutive sessions: a recording that is stopped and discarded (its
\* transcript too short, or its summarisation failed), then a second one.
NextConsecutive ==
    \/ SyncTranscriptRef /\ UNCHANGED aux
    \/ StartClick /\ BagCardinality(starts') <= MaxStarts /\ UNCHANGED aux
    \/ \E t \in BagToSet(starts) : AcquireOk(t) /\ Len(streams') <= MaxSessions
          /\ UNCHANGED aux
    \/ \E c \in DOMAIN clients : SessionOpen(c) /\ UNCHANGED aux
    \/ \E c \in DOMAIN clients : \E text \in SessionTexts(c) :
          SessionMessage(c, text) /\ UNCHANGED aux
    \/ StopClick /\ UNCHANGED aux
    \/ \E t \in BagToSet(stops) : CloseResolved(t) /\ UNCHANGED aux
    \/ StopResume /\ UNCHANGED aux
    \/ StopCheck /\ UNCHANGED aux
    \/ \E t \in BagToSet(stops) : GenerateSettled(t, "rejected") /\ UNCHANGED aux
    \/ GenerateRejected /\ UNCHANGED aux

SpecConsecutive == Init /\ [][NextConsecutive]_vars

(* --------------------------- batch strategy --------------------------- *)

\* The batch strategy of the transcription session: chunks accumulate in a
\* buffer; on every interval the buffer is swapped for an empty one and sent
\* as one transcription request; stop() flushes what is buffered and
\* resolves when no request is left in flight.  `requests` counts the
\* requests sent, `final` those sent by stop(), `pendingAtStop` the chunks
\* buffered when stop() was called.
NewBatch ==
    [state |-> "recording", buffer |-> <<>>, captured |-> 0, inFlight |-> <<>>,
     segments |-> <<>>, failed |-> 0, requests |-> 0, final |-> 0,
     pendingAtStop |-> 0, ignored |-> 0]

\* A batch-strategy session has started.
InitBatch ==
    /\ InitApp
    /\ updates = <<>>
    /\ delivered = <<>>
    /\ volumeLevel = FZero
    /\ meter = NoMeter
    /\ call = NoCall
    /\ batch = NewBatch

\* The audio callback hands over a chunk: buffered while the session
\* records, ignored once stop() has begun.
BatchChunk ==
    /\ batch.state # "none"
    /\ batch.captured < MaxChunks
    /\ batch' = IF batch.state = "recording"
                  THEN [batch EXCEPT !.captured = @ + 1,
                                     !.buffer = Append(@, batch.captured + 1)]
                  ELSE [batch EXCEPT !.captured = @ + 1, !.ignored = @ + 1]
    /\ UNCHANGED <<status, transcript, minutes, sourceType, error, apiKey,
                   liveClientRef, transcriptRef, clients, streams, starts,
                   stops, running, updates, delivered, volumeLevel, meter, call>>

\* The interval timer: the buffered chunks become the payload of one
\* request and the buffer is empty again, in one step; nothing is sent for
\* an empty buffer.
BatchTimer ==
    /\ batch.state = "recording"
    /\ batch.buffer # <<>>
    /\ Len(batch.inFlight) < MaxInFlight
    /\ batch' = [batch EXCEPT
                   !.inFlight = Append(@, [payload |-> batch.buffer, final |-> FALSE]),
                   !.requests = @ + 1,
                   !.buffer = <<>>]
    /\ UNCHANGED <<status, transcript, minutes, sourceType, error, apiKey,
                   liveClientRef, transcriptRef, clients, streams, starts,
                   stops, running, updates, delivered, volumeLevel, meter, call>>

\* A request that, when it fails, is sent again
BatchSettleRetries(i, ok) ==
    /\ batch.state # "none"
    /\ i \in 1 .. Len(batch.inFlight)
    /\ batch' = IF ok
                  THEN [batch EXCEPT
                          !.inFlight = SubSeq(@, 1, i - 1) \o SubSeq(@, i + 1, Len(@)),
                          !.segments = Append(@, batch.inFlight[i].payload)]
                  ELSE [batch EXCEPT !.failed = @ + 1, !.requests = @ + 1]
    /\ UNCHANGED <<status, transcript, minutes, sourceType, error, apiKey,
                   liveClientRef, transcriptRef, clients, streams, starts,
                   stops, running, updates, delivered, volumeLevel, meter, call>>

\* Request i settles: on success its text is appended as one segment, on
\* failure the window is reported and dropped; the session goes on.
BatchSettle(i, ok) ==
    /\ batch.state # "none"
    /\ i \in 1 .. Len(batch.inFlight)
    /\ batch' = [batch EXCEPT
                   !.inFlight = SubSeq(@, 1, i - 1) \o SubSeq(@, i + 1, Len(@)),
                   !.segments = IF ok THEN Append(@, batch.inFlight[i].payload) ELSE @,
                   !.failed = IF ok THEN @ ELSE @ + 1]
    /\ UNCHANGED <<status, transcript, minutes, sourceType, error, apiKey,
                   liveClientRef, transcriptRef, clients, streams, starts,
                   stops, running, updates, delivered, volumeLevel, meter, call>>

\* stop() without the flush: what is buffered is dropped
BatchStopDropsBuffer ==
    /\ batch.state = "recording"
    /\ batch' = [batch EXCEPT !.state = "stopping",
                              !.pendingAtStop = Len(batch.buffer),
                              !.buffer = <<>>]
    /\ UNCHANGED <<status, transcript, minutes, sourceType, error, apiKey,
                   liveClientRef, transcriptRef, clients, streams, starts,
                   stops, running, updates, delivered, volumeLevel, meter, call>>

\* stop() begins: the timer is cancelled, and a non-empty buffer is sent as
\* the final request.
BatchStop ==
    /\ batch.state = "recording"
    /\ batch' = IF batch.buffer = <<>>
                  THEN [batch EXCEPT !.state = "stopping"]
                  ELSE [batch EXCEPT
                          !.state = "stopping",
                          !.pendingAtStop = Len(batch.buffer),
                          !.inFlight = Append(@, [payload |-> batch.buffer, final |-> TRUE]),
                          !.requests = @ + 1,
                          !.final = @ + 1,
                          !.buffer = <<>>]
    /\ UNCHANGED <<status, transcript, minutes, sourceType, error, apiKey,
                   liveClientRef, transcriptRef, clients, streams, starts,
                   stops, running, updates, delivered, volumeLevel, meter, call>>

\* stop() resolves: every request, the final one included, has settled.
BatchStopResolves ==
    /\ batch.state = "stopping"
    /\ batch.inFlight = <<>>
    /\ batch' = [batch EXCEPT !.state = "stopped"]
    /\ UNCHANGED <<status, transcript, minutes, sourceType, error, apiKey,
                   liveClientRef, transcriptRef, clients, streams, starts,
                   stops, running, updates, delivered, volumeLevel, meter, call>>

\* A recording starts (setVolumeLevel(0)) on an input of constant amplitude.
InitVolume ==
    /\ InitApp
    /\ updates = <<>>
    /\ delivered = <<>>
    /\ volumeLevel = FZero
    /\ meter \in { [rms |-> l, frames |-> 0] : l \in FrameLevels }
    /\ call = NoCall
    /\ batch = NoBatch

\* onaudioprocess: the rms of the frame goes to onVolumeCallback, whose
\* updater is applied at the next render, before the next frame (frames are
\* 256 ms apart).
VolumeFrame ==
    /\ volumeLevel' = Smooth(volumeLevel, meter.rms)
    /\ meter' = [meter EXCEPT !.frames = @ + 1]
    /\ UNCHANGED <<status, transcript, minutes, sourceType, error, apiKey,
                   liveClientRef, transcriptRef, clients, streams, starts,
                   stops, running, updates, delivered, call, batch>>

\* The input falls silent: the frames from now on have rms 0.
InputSilent ==
    /\ meter.rms # FZero
    /\ meter' = [meter EXCEPT !.rms = FZero]
    /\ UNCHANGED <<status, transcript, minutes, sourceType, error, apiKey,
                   liveClientRef, transcriptRef, clients, streams, starts,
                   stops, running, updates, delivered, volumeLevel, call, batch>>

\* One call of downsampleBuffer about to be made, on a buffer of any length
\* and any pair of rates.
InitDownsample ==
    /\ InitApp
    /\ updates = <<>>
    /\ delivered = <<>>
    /\ volumeLevel = FZero
    /\ meter = NoMeter
    /\ call \in { [fn |-> "downsampleBuffer", buffer |-> PowerBuffer(n),
                   inputSampleRate |-> p[1], outputSampleRate |-> p[2],
                   result |-> <<>>, returned |-> FALSE] :
                  n \in 0 .. MaxBufferLen, p \in RatePairs }
    /\ batch = NoBatch

\* downsampleBuffer(buffer, inputSampleRate, outputSampleRate) runs and
\* returns result.
CallDownsampleBuffer ==
    /\ call.fn = "downsampleBuffer"
    /\ ~call.returned
    /\ call' = [call EXCEPT
                  !.result = downsampleBuffer(call.buffer, call.inputSampleRate,
                                              call.outputSampleRate),
                  !.returned = TRUE]
    /\ UNCHANGED <<status, transcript, minutes, sourceType, error, apiKey,
                   liveClientRef, transcriptRef, clients, streams, starts,
                   stops, running, updates, delivered, volumeLevel, meter, batch>>

\* One call of float32ToPCM16.
NextPCM == CallFloat32ToPCM16

SpecPCM == InitPCM /\ [][NextPCM]_vars

\* One batch-strategy session, from its start to the return of stop().
NextBatch ==
    \/ BatchChunk
    \/ BatchTimer
    \/ \E i \in 1 .. MaxInFlight + 1, ok \in BOOLEAN : BatchSettle(i, ok)
    \/ BatchStop
    \/ BatchStopResolves

SpecBatch == InitBatch /\ [][NextBatch]_vars

\* The volume meter over one recording.
NextVolume ==
    \/ VolumeFrame /\ meter.frames < MaxVolumeFrames
    \/ InputSilent

SpecVolume == InitVolume /\ [][NextVolume]_vars

\* One call of downsampleBuffer.
NextDownsample == CallDownsampleBuffer

SpecDownsample == InitDownsample /\ [][NextDownsample]_vars

(* ----------------------------- properties ----------------------------- *)

\* s is a prefix of t
IsPrefix(s, t) == Len(s) <= Len(t) /\ SubSeq(t, 1, Len(s)) = s

TypeOK ==
    /\ status \in MeetingStatus
    /\ sourceType \in AudioSourceType
    /\ apiKey \in BOOLEAN
    /\ Len(transcript) <= MaxTranscriptLen
    /\ Len(minutes) <= 1
    /\ liveClientRef \in 0..Len(clients)
    /\ Len(clients) <= Len(streams)
    /\ Len(streams) <= MaxStreams
    /\ Len(running) <= 1
    /\ BagCardinality(starts) <= MaxStarts
    /\ InFlightStops <= MaxStops

\* The continuation of handleStopRecording after disconnect() is next.
AtResume == running # <<>> /\ running[1].pc = "resume"

\* setStatus(PROCESSING) has just run; the transcript test is next.
AtCheck == running # <<>> /\ running[1].pc = "check"

\* No track of stream s is running.
TracksReleased(s) == streams[s].video # "live" /\ streams[s].audio # "live"

\* Client c holds no recording resource.
ClientReleased(c) ==
    /\ ~clients[c].processor
    /\ ~clients[c].inputSource
    /\ clients[c].ctx # "running"
    /\ TracksReleased(clients[c].stream)

\* The transitions of the lifecycle table.
LifecycleTable ==
    { <<"IDLE", "RECORDING">>, <<"RECORDING", "PROCESSING">>,
      <<"PROCESSING", "REVIEWING">>, <<"PROCESSING", "IDLE">>,
      <<"REVIEWING", "IDLE">> }

\* C1: from status RECORDING, the continuation of every stop (button, track
\* 'ended', fatal session error) sets status to PROCESSING, never to IDLE.
C1_StopReachesProcessing ==
    [][ (AtResume /\ status = "RECORDING") => status' = "PROCESSING" ]_vars

C3_ReleasedBeforeProcessing ==
    (AtCheck /\ running[1].client # 0) => ClientReleased(running[1].client)

\* C4: a display stream without an audio track never leads to RECORDING: its
\* tracks are stopped, no client is constructed on it, and the step that
\* receives it ends with status IDLE and the no-audio error set.
C4_NoAudioStreamRejected ==
    /\ [](\A s \in DOMAIN streams :
             AudioTrackCount(streams[s]) = 0 =>
                 /\ TracksReleased(s)
                 /\ \A c \in DOMAIN clients : clients[c].stream # s)
    /\ [][ (Len(streams') > Len(streams)
              /\ AudioTrackCount(streams'[Len(streams')]) = 0) =>
                 (status' = "IDLE" /\ error' = ErrNoAudio /\ clients' = clients)
       ]_vars

\* C4 witness: a stream without audio has been acquired from SYSTEM_AUDIO and
\* rejected, leaving status IDLE with the no-audio error.
C4_Witness ==
    /\ \E s \in DOMAIN streams : AudioTrackCount(streams[s]) = 0
    /\ status = "IDLE"
    /\ error = ErrNoAudio
    /\ clients = <<>>

\* C5: when a recording is stopped with a transcript whose trimmed length is
\* below 10, the stop sets status PROCESSING, then IDLE with an error, and
\* starts no generateMinutes call.
C5_ShortTranscriptRejected ==
    [][ /\ (AtResume /\ status = "RECORDING"
              /\ Len(Trim(transcript)) < MinTranscriptLen) =>
                 status' = "PROCESSING"
        /\ (AtCheck /\ Len(Trim(transcript)) < MinTranscriptLen) =>
                 (status' = "IDLE" /\ error' # NoError /\ stops' = stops)
      ]_vars

\* C6: every failed acquisition (a start that ends without constructing a
\* client) leaves status IDLE and a non-null error.
C6_FailedAcquisitionSurfaced ==
    [][ (BagCardinality(starts') < BagCardinality(starts)
           /\ Len(clients') = Len(clients)) =>
              (status' = "IDLE" /\ error' # NoError) ]_vars

\* C7: every change of status is a transition of the lifecycle table.
C7_OnlyTableTransitions ==
    [][ status' # status => <<status, status'>> \in LifecycleTable ]_vars

\* C8: whenever status is not RECORDING no client holds a connected
\* processor, an open audio context or a running track.
C8_NoResourcesOutsideRecording ==
    status # "RECORDING" => \A c \in DOMAIN clients : ClientReleased(c)

\* C9: when audioContext.close() rejects inside disconnect(), the tracks of
\* that client's stream are stopped all the same and status leaves RECORDING.
C9_FailedCloseStillReleases ==
    [][ \A t \in BagToSet(stops) :
            (t.pc = "closing" /\ stops' = stops (-) SetToBag({t})
               /\ running' = <<>>) =>
                 /\ streams'[clients[t.client].stream].video # "live"
                 /\ streams'[clients[t.client].stream].audio # "live"
                 /\ status' # "RECORDING" ]_vars

\* C10: release is ordered: once disconnect() has stopped the tracks and
\* dropped the stream, the processor is disconnected and the session has been
\* asked to close (session = "closed", which only session.close() yields).
C10_OrderedRelease ==
    \A c \in DOMAIN clients :
        ~clients[c].mediaStream =>
            (~clients[c].processor /\ clients[c].session = "closed")

\* C11: no session.sendRealtimeInput call is made for a client after its
\* disconnect() has begun, sends queued on sessionPromise.then included.
C11_NoSendAfterDisconnect ==
    \A c \in DOMAIN clients : ~clients[c].late

\* C12: once disconnect() has resolved for a client (its audio context is
\* closed), the client's session is no longer connecting or open, so the
\* service can call onmessage or onerror for it no more.
C12_SessionReleased ==
    \A c \in DOMAIN clients :
        clients[c].ctx = "closed" => clients[c].session \notin {"connecting", "open"}

\* C13: while status is PROCESSING or REVIEWING, and stays so, the
\* transcript does not change.
C13_TranscriptFrozen ==
    [][ (status \in {"PROCESSING", "REVIEWING"}
           /\ status' \in {"PROCESSING", "REVIEWING"}) =>
              transcript' = transcript ]_vars

\* C14: from a state with status RECORDING every step leaves the previous
\* transcript as a prefix of the new one; in particular none clears it.
C14_AppendOnlyWhileRecording ==
    [][ status = "RECORDING" => IsPrefix(transcript, transcript') ]_vars

\* C15: when a stop calls generateMinutes, the text it passes is the whole
\* transcript as it stands since status became PROCESSING.
C15_FullTranscriptSummarised ==
    [][ (AtCheck /\ BagCardinality(stops') > BagCardinality(stops)) =>
            \E t \in BagToSet(stops') :
                /\ stops' = stops (+) SetToBag({t})
                /\ t.pc = "generating"
                /\ t.text = transcript ]_vars

\* C16: at most one client at a time holds a media stream or an audio
\* context.
C16_OneLiveClient ==
    Cardinality({ c \in DOMAIN clients :
                    clients[c].mediaStream \/ clients[c].audioContext }) <= 1

\* The step is a connection failure of client c: its session goes from
\* connecting or open to failed, or c is constructed without a session.
ConnectionFails(c) ==
    /\ clients'[c].session \in {"error", "none"}
    /\ c \in DOMAIN clients => clients[c].session \in {"connecting", "open"}

\* C17: every connection failure of a client invokes the stop path: a
\* handleStopRecording invocation is started by the step, and status does
\* not stay RECORDING without one.
C17_ConnectionFailureStops ==
    [][ \A c \in DOMAIN clients' :
            ConnectionFails(c) =>
                BagCardinality(stops') + Len(running')
                    > BagCardinality(stops) + Len(running) ]_vars

\* generateMinutes has rejected; the catch of handleStopRecording is next.
AtRejected == running # <<>> /\ running[1].pc = "rejected"

\* C18: when generateMinutes has rejected and status is PROCESSING, the
\* continuation sets status IDLE and an error, leaves minutes as they were
\* and starts no other summarization.
C18_GenerationFailureToIdle ==
    [][ (AtRejected /\ status = "PROCESSING") =>
            /\ status' = "IDLE"
            /\ error' # NoError
            /\ minutes' = minutes
            /\ stops' = stops
            /\ running' = <<>> ]_vars

\* C18 witness: a summarization has failed from PROCESSING, leaving status
\* IDLE, the generation error and no minutes.
C18_Witness ==
    /\ status = "IDLE"
    /\ error = ErrGenerate
    /\ minutes = <<>>
    /\ \E c \in DOMAIN clients : clients[c].generated = 1
    /\ stops = EmptyBag
    /\ running = <<>>

\* C19: whenever status is REVIEWING, minutes are stored and they are the
\* summary of a text whose trimmed length is at least 10.
C19_ReviewingHasMinutes ==
    status = "REVIEWING" =>
        /\ minutes # <<>>
        /\ Len(Trim(minutes[1])) >= MinTranscriptLen

\* C19 witness: status REVIEWING with minutes stored.
C19_Witness ==
    /\ status = "REVIEWING"
    /\ minutes # <<>>
    /\ running = <<>>

\* C20: from status REVIEWING, a status change made by a user interface
\* handler (no pending continuation runs: stops, running, starts and clients
\* are untouched), which is handleReset, gives status IDLE, an empty
\* transcript, no minutes and no error.
C20_ResetFromReviewing ==
    [][ (status = "REVIEWING" /\ status' # status
           /\ UNCHANGED <<stops, running, starts, clients>>) =>
              /\ status' = "IDLE"
              /\ transcript' = <<>>
              /\ minutes' = <<>>
              /\ error' = NoError ]_vars

\* C20 witness: status REVIEWING with a transcript, minutes and an error
\* shown, where handleReset can run and has all three to clear.
C20_Witness ==
    /\ status = "REVIEWING"
    /\ running = <<>>
    /\ transcript # <<>>
    /\ minutes # <<>>
    /\ error # NoError

\* C23: stop is idempotent: a disconnect() called while another disconnect()
\* of the same client awaits audioContext.close() does not fail, that is, no
\* disconnect() is ever rejected because close() was called a second time on
\* the context.
C23_StopIdempotent ==
    \A c \in DOMAIN clients : ~clients[c].closedTwice

\* The texts of the sequence of segments segs joined by single spaces.
RECURSIVE Joined(_)
Joined(segs) ==
    IF segs = <<>> THEN <<>>
    ELSE IF Len(segs) = 1 THEN segs[1].text
    ELSE Joined(SubSeq(segs, 1, Len(segs) - 1)) \o <<" ">> \o segs[Len(segs)].text

\* The texts of segs, each preceded by a single space.
RECURSIVE Preceded(_)
Preceded(segs) ==
    IF segs = <<>> THEN <<>>
    ELSE Preceded(SubSeq(segs, 1, Len(segs) - 1)) \o <<" ">> \o segs[Len(segs)].text

\* C21 (as stated): once every queued update is rendered, the transcript is
\* the delivered texts in arrival order joined by single spaces, however the
\* updates were batched.
C21_JoinedBySingleSpaces ==
    updates = <<>> => transcript = Joined(delivered)

\* C21 (amended): the transcript with the queued updates applied is the
\* delivered texts in arrival order, each preceded by a single space, in
\* every state: whichever updates were rendered one at a time and whichever
\* were batched into one render, none is lost or reordered.
C21_EachPrecededBySpace ==
    ApplyUpdates(transcript, updates) = Preceded(delivered)

\* One segment was rendered on its own and two differing ones wait for the
\* same render.
C21_Witness ==
    /\ transcript # <<>>
    /\ Len(updates) = 2
    /\ updates[1] # updates[2]

\* The number of occurrences of character ch in the sequence s.
RECURSIVE Count(_, _)
Count(ch, s) ==
    IF s = <<>> THEN 0 ELSE (IF s[1] = ch THEN 1 ELSE 0) + Count(ch, Tail(s))

\* C22: n delivered segments produce n appends, whatever their `finished`
\* flags and whether or not a text repeats the one before: the appends
\* rendered (one separator each; no text holds one) and the appends queued
\* are as many as the segments delivered.
C22_EveryDeliveryAppendedOnce ==
    Count(" ", transcript) + Len(updates) = Len(delivered)

\* The same text was delivered twice in a row, once as interim and once as
\* final, and both deliveries are rendered.
C22_Witness ==
    /\ updates = <<>>
    /\ Len(delivered) >= 2
    /\ delivered[1].text = delivered[2].text
    /\ delivered[1].finished # delivered[2].finished
    /\ transcript = Preceded(delivered)

\* C24: each frame captured produces exactly one send and the sends are in
\* capture order, frames captured before sessionPromise resolved included:
\* the frames sent followed by the frames whose send waits on the promise
\* are the frames captured, 1..frames, each once and in order, and nothing
\* waits once the promise has resolved.
C24_EachFrameSentOnceInOrder ==
    \A c \in DOMAIN clients :
        /\ clients[c].sent \o clients[c].queue = [i \in 1..clients[c].frames |-> i]
        /\ clients[c].promise = "resolved" => clients[c].queue = <<>>

\* Two frames were captured and both have been sent, in capture order.
C24_Witness ==
    \E c \in DOMAIN clients :
        /\ clients[c].frames = 2
        /\ clients[c].promise = "resolved"
        /\ clients[c].sent = <<1, 2>>

\* One of the texts occurs in the character sequence s.
Occurs(texts, s) ==
    \E text \in texts : \E i \in 1..Len(s) :
        i + Len(text) - 1 <= Len(s) /\ SubSeq(s, i, i + Len(text) - 1) = text

\* C25: once a second session has started after the first was discarded,
\* no text of the first session is in the transcript, nor in the text a
\* stop of the second session hands to generateMinutes.
C25_NextSessionStartsEmpty ==
    (Len(clients) = 2 /\ clients[1].entered >= 1) =>
        /\ ~Occurs(SessionTexts(1), transcript)
        /\ \A t \in BagToSet(stops) :
              (t.pc = "generating" /\ t.client = 2) => ~Occurs(SessionTexts(1), t.text)

\* C26: float32ToPCM16 maps every sample into [-32768, 32767]; a sample
\* above 1 maps as 1 does, to 32767, and one below -1 as -1 does, to -32768;
\* 0 maps to 0; a sample x in [0, 1] maps to the integer part of 32767 x and
\* a sample x in [-1, 0) to the integer part of 32768 x, both truncated
\* toward zero.
C26_PCM16RangeClampScale ==
    (call.fn = "float32ToPCM16" /\ call.returned) =>
        /\ Len(call.int16Array) = Len(call.float32Array)
        /\ \A i \in 1 .. Len(call.float32Array) :
              LET x == call.float32Array[i]
                  o == call.int16Array[i]
              IN  /\ o \in -32768 .. 32767
                  /\ (~x.nan /\ x.num >= SampleDen) => o = 32767
                  /\ (~x.nan /\ x.num <= -SampleDen) => o = -32768
                  /\ (~x.nan /\ x.num = 0) => o = 0
                  /\ (~x.nan /\ x.num >= 0 /\ x.num < SampleDen) =>
                        /\ o \in 0 .. 32766
                        /\ x.num * 32767 - o * SampleDen \in 0 .. SampleDen - 1
                  /\ (~x.nan /\ x.num < 0 /\ x.num > -SampleDen) =>
                        /\ o \in -32767 .. 0
                        /\ (-x.num) * 32768 - (-o) * SampleDen \in 0 .. SampleDen - 1

\* A buffer with a sample above 1 and a negative sample whose product has a
\* fraction has been converted.
C26_Witness ==
    /\ call.fn = "float32ToPCM16"
    /\ call.returned
    /\ \E i \in 1 .. Len(call.float32Array) :
          ~call.float32Array[i].nan /\ call.float32Array[i].num > SampleDen
    /\ \E j \in 1 .. Len(call.float32Array) :
          /\ ~call.float32Array[j].nan
          /\ call.float32Array[j].num < 0
          /\ call.float32Array[j].num > -SampleDen
          /\ ((-call.float32Array[j].num) * 32768) % SampleDen # 0
          /\ call.int16Array[j] = 0

\* round(a / b) for naturals a and b > 0, halves up: the rounding of
\* Math.round, of the exact quotient.
RoundHalfUp(a, b) == (2 * a + b) \div (2 * b)

\* C27: downsampleBuffer returns round(N * R_out / R_in) samples for a
\* buffer of N samples, and the buffer itself when the rates are equal.
C27_DownsampledLength ==
    (call.fn = "downsampleBuffer" /\ call.returned) =>
        /\ Len(call.result) =
              RoundHalfUp(Len(call.buffer) * call.outputSampleRate,
                          call.inputSampleRate)
        /\ call.inputSampleRate = call.outputSampleRate =>
              call.result = call.buffer

\* C28: output sample k of downsampleBuffer (rates different) is the mean of
\* the samples with index in [round(k R_in/R_out), round((k+1) R_in/R_out))
\* inside the buffer, wherever that window holds a sample.
C28_MeanOfWindow ==
    (/\ call.fn = "downsampleBuffer"
     /\ call.returned
     /\ call.inputSampleRate # call.outputSampleRate) =>
        \A k \in 0 .. Len(call.result) - 1 :
            LET from == RoundHalfUp(k * call.inputSampleRate, call.outputSampleRate)
                to   == Min(RoundHalfUp((k + 1) * call.inputSampleRate,
                                        call.outputSampleRate),
                            Len(call.buffer))
            IN  to > from =>
                  call.result[k + 1].num * (to - from)
                    = Accum(call.buffer, from, to) * call.result[k + 1].den

\* C29: every frame moves the smoothed volume level toward the rms of the
\* frame and not beyond it: a level at or below the rms does not fall and
\* does not rise above the rms, a level at or above it does not rise and
\* does not fall below it (so over silent frames it falls toward 0 and
\* never below).
C29_MovesTowardInputLevel ==
    [][meter'.frames = meter.frames + 1 =>
         /\ FLeq(volumeLevel, meter.rms) =>
               FLeq(volumeLevel, volumeLevel') /\ FLeq(volumeLevel', meter.rms)
         /\ FLeq(meter.rms, volumeLevel) =>
               FLeq(meter.rms, volumeLevel') /\ FLeq(volumeLevel', volumeLevel)]_vars

\* C30: when stop() of a batch-strategy session found chunks buffered and
\* unsent, exactly one final transcription request was sent, carrying them,
\* and it has settled by the time stop() resolves; stop() never sends more
\* than one.
C30_OneFinalAttemptBeforeResolve ==
    /\ batch.state # "none" => batch.final <= 1
    /\ (batch.state \in {"stopping", "stopped"} /\ batch.pendingAtStop > 0) =>
          batch.final = 1
    /\ batch.state = "stopped" =>
          /\ batch.inFlight = <<>>
          /\ batch.buffer = <<>>
          /\ batch.captured > batch.ignored => batch.requests > 0

\* stop() found two chunks buffered while an interval request was still in
\* flight, and has resolved after its final request failed.
C30_Witness ==
    /\ batch.state = "stopped"
    /\ batch.pendingAtStop = 2
    /\ batch.final = 1
    /\ batch.requests = 2
    /\ batch.failed >= 1

\* C31: the failure of a request of a batch-strategy session changes nothing
\* but the request itself: the session stays in the state it was in
\* (recording, if it was recording), the chunks of the failed window are
\* neither buffered again nor sent again, no segment is appended, and the
\* requests of other windows stay in flight.
C31_BatchFailureNonFatal ==
    [][(batch.state # "none" /\ batch'.failed = batch.failed + 1) =>
         /\ batch'.state = batch.state
         /\ batch'.buffer = batch.buffer
         /\ batch'.requests = batch.requests
         /\ batch'.segments = batch.segments
         /\ Len(batch'.inFlight) = Len(batch.inFlight) - 1]_vars

\* The request of the first window failed, the session went on recording,
\* and the request of the next window, with chunk 2 alone, succeeded.
C31_Witness ==
    /\ batch.state = "recording"
    /\ batch.failed = 1
    /\ batch.requests = 2
    /\ batch.inFlight = <<>>
    /\ batch.segments = << <<2>> >>

\* C32: once a disconnect() of a client has resolved (it has stopped the
\* tracks and dropped the stream, its last step), the client holds no
\* processor, no input source, no audio context and no stream, in that state
\* and in every later one, whenever onopen fired.
C32_ReleasedAfterDisconnect ==
    \A c \in DOMAIN clients :
        (clients[c].began /\ ~clients[c].mediaStream) =>
            /\ ~clients[c].processor
            /\ ~clients[c].inputSource
            /\ ~clients[c].audioContext

\* C33: whenever status is PROCESSING it later is REVIEWING or IDLE, in every
\* behaviour in which continuations run and every generateMinutes call
\* settles.
C33_ProcessingNotStuck ==
    (status = "PROCESSING") ~> (status \in {"REVIEWING", "IDLE"})

\* Status is PROCESSING while a generateMinutes call is pending and no
\* continuation holds the thread.
C33_Witness ==
    /\ status = "PROCESSING"
    /\ running = <<>>
    /\ \E t \in BagToSet(stops) : t.pc = "generating"


C35_NoKeyNoStart ==
    [][ ~apiKey =>
            /\ (error' # NoError => error' = ErrMissingKey)
            /\ status' = "IDLE"
            /\ starts' = EmptyBag
            /\ streams' = <<>>
            /\ clients' = <<>>
            /\ liveClientRef' = 0 ]_vars

\* The start button has been pressed with no API key.
C35_Witness ==
    /\ ~apiKey
    /\ error = ErrMissingKey
    /\ status = "IDLE"
    /\ starts = EmptyBag
    /\ clients = <<>>


\* The input indices whose samples were summed into an output sample: the
\* inputs are distinct powers of two, so the sum names its terms.
C36_Window(q) ==
    { i \in 0 .. Len(call.buffer) - 1 : (q.num \div 2^i) % 2 = 1 }

\* C36: downsampleBuffer with inputSampleRate > outputSampleRate: every
\* output sample averages a non-empty run of consecutive input samples, the
\* first run starts at input 0, each run starts where the one before ended,
\* and no input sample is in two runs.
C36_WindowsPartition ==
    (call.fn = "downsampleBuffer" /\ call.returned
        /\ call.inputSampleRate > call.outputSampleRate) =>
        /\ \A k \in DOMAIN call.result :
              LET w == C36_Window(call.result[k])
              IN  /\ w # {}
                  /\ Cardinality(w) = call.result[k].den
                  /\ \A i \in w : \A j \in w : \A m \in i .. j : m \in w
                  /\ IF k = 1 THEN 0 \in w
                      ELSE \E i \in w :
                              /\ i - 1 \in C36_Window(call.result[k - 1])
                              /\ \A j \in w : i <= j
        /\ \A j \in DOMAIN call.result : \A k \in DOMAIN call.result :
              j # k => C36_Window(call.result[j]) \cap C36_Window(call.result[k]) = {}

\* A call from 17 to 14 has returned at least three output samples, some
\* averaged over two inputs and some taken from one.
C36_Witness ==
    /\ call.fn = "downsampleBuffer"
    /\ call.returned
    /\ call.inputSampleRate = 17
    /\ call.outputSampleRate = 14
    /\ Len(call.result) >= 3
    /\ \E k \in DOMAIN call.result : call.result[k].den = 2
    /\ \E k \in DOMAIN call.result : call.result[k].den = 1

==============================================================================
